---- MODULE Spec2Model ----
(***************************************************************************)
(* Model of backend/server.py: the startup sequence that wipes and reseeds *)
(* the two collections of the document store, the four read endpoints, the *)
(* capacity calculator and the overview endpoint.                          *)
(*                                                                         *)
(* Conventions.                                                            *)
(*  - A collection is the sequence of its documents in insertion order.    *)
(*  - uuid4 values are modelled as the pair <<run, k>>: the k-th identifier*)
(*    drawn by the run-th startup sequence (uuid4 never repeats a value).  *)
(*  - datetime.utcnow() is a logical clock: the number of the startup run. *)
(*  - Python floats are modelled as exact rationals n/d; for the integers  *)
(*    the model draws (magnitude below 2^31) IEEE double division and the  *)
(*    products with 0.1, 0.01, 0.001 and 0.8 round to a value with the same *)
(*    ceil / int() as the exact rational.                                  *)
(*  - resp is the response produced by the step just taken; a step that    *)
(*    serves no request leaves NoResponse there.                           *)
(*  - Two service instances share the store. A request is served by an     *)
(*    instance that is up, so it can fall between two store operations of  *)
(*    the other instance's startup.                                        *)
(*  - Spec: the main instance starts, fails and restarts alone while the   *)
(*    other one serves requests. SpecConcurrent: both instances run their  *)
(*    startup handlers against the store, with at most MaxSwitches         *)
(*    hand-overs between them.                                             *)
(*  - The non-ASCII arrow in one seed string is written "->".              *)
(***************************************************************************)
EXTENDS Integers, Sequences, FiniteSets, TLC

\* ---------------------------------------------------------------- enums

LOAD_BALANCER == "load_balancer"
CDN == "cdn"
API_GATEWAY == "api_gateway"
GAME_SERVER == "game_server"
DATABASE == "database"
CACHE == "cache"
MESSAGE_QUEUE == "message_queue"
MONITORING == "monitoring"
SECURITY == "security"
STORAGE == "storage"

ComponentType ==
  {LOAD_BALANCER, CDN, API_GATEWAY, GAME_SERVER, DATABASE, CACHE,
   MESSAGE_QUEUE, MONITORING, SECURITY, STORAGE}

BEGINNER == "beginner"
INTERMEDIATE == "intermediate"
ADVANCED == "advanced"

DifficultyLevel == {BEGINNER, INTERMEDIATE, ADVANCED}

\* Python's None for an optional string parameter.
None == "None"

\* ------------------------------------------------------------ seed data

SeedComponents ==
  <<
    \* src/backend/server.py:95-112
    [name |-> "Global Load Balancer",
     type |-> LOAD_BALANCER,
     description |-> "Distributes 26M concurrent players across global regions",
     detailed_explanation |-> "Roblox uses a multi-tier load balancing system with geographic distribution. The global load balancer uses DNS-based routing and anycast to direct players to the nearest regional data center. It handles health checks, failover, and capacity-based routing.",
     technologies |-> <<"HAProxy", "NGINX", "AWS ELB", "Cloudflare">>,
     protocols |-> <<"HTTP/2", "TCP", "DNS", "Anycast">>,
     capacity_metrics |-> [requests_per_second |-> 2000000,
         concurrent_connections |-> 26000000,
         latency_ms |-> 50,
         availability |-> [num |-> 9999, den |-> 100]],
     position |-> [x |-> 100,
         y |-> 100],
     connections |-> <<"cdn", "api_gateway">>,
     difficulty_level |-> INTERMEDIATE,
     step_order |-> 1],
    \* src/backend/server.py:113-130
    [name |-> "Content Delivery Network (CDN)",
     type |-> CDN,
     description |-> "Caches game assets and reduces latency globally",
     detailed_explanation |-> "Roblox's CDN network spans 200+ edge locations worldwide, caching game assets, avatars, and static content. It uses intelligent routing, content optimization, and edge computing to minimize latency for players.",
     technologies |-> <<"CloudFront", "Cloudflare", "Akamai", "Custom Edge Servers">>,
     protocols |-> <<"HTTP/2", "HTTP/3", "WebRTC", "UDP">>,
     capacity_metrics |-> [edge_locations |-> 200,
         cache_hit_ratio |-> 95,
         bandwidth_tbps |-> 100,
         asset_requests_per_second |-> 5000000],
     position |-> [x |-> 300,
         y |-> 100],
     connections |-> <<"load_balancer", "storage">>,
     difficulty_level |-> BEGINNER,
     step_order |-> 2],
    \* src/backend/server.py:131-148
    [name |-> "API Gateway",
     type |-> API_GATEWAY,
     description |-> "Routes requests to appropriate microservices",
     detailed_explanation |-> "The API Gateway acts as a single entry point for all client requests, handling authentication, rate limiting, request routing, and protocol translation. It implements circuit breakers and retries for fault tolerance.",
     technologies |-> <<"Kong", "Envoy", "AWS API Gateway", "Custom Service Mesh">>,
     protocols |-> <<"HTTP/2", "gRPC", "WebSocket", "TCP">>,
     capacity_metrics |-> [requests_per_second |-> 10000000,
         services_managed |-> 500,
         rate_limit_per_user |-> 1000,
         response_time_ms |-> 10],
     position |-> [x |-> 200,
         y |-> 250],
     connections |-> <<"load_balancer", "game_server", "database">>,
     difficulty_level |-> INTERMEDIATE,
     step_order |-> 3],
    \* src/backend/server.py:149-166
    [name |-> "Game Server Cluster",
     type |-> GAME_SERVER,
     description |-> "Hosts individual game instances and player sessions",
     detailed_explanation |-> "Roblox runs thousands of game servers across multiple regions. Each server can handle 50-100 concurrent players per game instance. The system uses container orchestration, auto-scaling, and intelligent placement to optimize performance.",
     technologies |-> <<"Kubernetes", "Docker", "Custom Game Engine", "Lua Runtime">>,
     protocols |-> <<"UDP", "TCP", "WebSocket", "Custom Protocol">>,
     capacity_metrics |-> [servers_count |-> 50000,
         players_per_server |-> 100,
         games_hosted |-> 1000000,
         cpu_utilization |-> 70],
     position |-> [x |-> 400,
         y |-> 350],
     connections |-> <<"api_gateway", "database", "cache", "message_queue">>,
     difficulty_level |-> ADVANCED,
     step_order |-> 4],
    \* src/backend/server.py:167-184
    [name |-> "Distributed Database",
     type |-> DATABASE,
     description |-> "Stores player data, game state, and metadata",
     detailed_explanation |-> "Roblox uses a combination of SQL and NoSQL databases with horizontal sharding. Player data is partitioned geographically, with read replicas for performance and master-slave replication for consistency.",
     technologies |-> <<"MySQL", "MongoDB", "Redis", "Cassandra">>,
     protocols |-> <<"MySQL Protocol", "MongoDB Wire Protocol", "Redis Protocol">>,
     capacity_metrics |-> [shards_count |-> 1000,
         read_replicas |-> 5000,
         writes_per_second |-> 500000,
         reads_per_second |-> 2000000],
     position |-> [x |-> 100,
         y |-> 450],
     connections |-> <<"api_gateway", "game_server", "cache">>,
     difficulty_level |-> ADVANCED,
     step_order |-> 5],
    \* src/backend/server.py:185-202
    [name |-> "Caching Layer",
     type |-> CACHE,
     description |-> "High-speed data access for frequent operations",
     detailed_explanation |-> "Multi-tier caching system with L1 (application), L2 (Redis), and L3 (CDN) caches. Implements cache warming, invalidation strategies, and consistent hashing for optimal performance.",
     technologies |-> <<"Redis Cluster", "Memcached", "Application Cache", "CDN Cache">>,
     protocols |-> <<"Redis Protocol", "Memcached Protocol", "HTTP">>,
     capacity_metrics |-> [cache_nodes |-> 5000,
         hit_ratio |-> 95,
         operations_per_second |-> 10000000,
         memory_tb |-> 100],
     position |-> [x |-> 200,
         y |-> 450],
     connections |-> <<"game_server", "database", "api_gateway">>,
     difficulty_level |-> INTERMEDIATE,
     step_order |-> 6],
    \* src/backend/server.py:203-220
    [name |-> "Message Queue System",
     type |-> MESSAGE_QUEUE,
     description |-> "Handles real-time events and cross-service communication",
     detailed_explanation |-> "Event-driven architecture using message queues for decoupled communication. Handles player actions, game events, and system notifications with guaranteed delivery and ordering.",
     technologies |-> <<"Apache Kafka", "RabbitMQ", "AWS SQS", "Custom Event Bus">>,
     protocols |-> <<"Kafka Protocol", "AMQP", "WebSocket", "Server-Sent Events">>,
     capacity_metrics |-> [messages_per_second |-> 50000000,
         topics |-> 10000,
         partitions |-> 100000,
         retention_hours |-> 168],
     position |-> [x |-> 500,
         y |-> 350],
     connections |-> <<"game_server", "monitoring", "api_gateway">>,
     difficulty_level |-> ADVANCED,
     step_order |-> 7],
    \* src/backend/server.py:221-238
    [name |-> "Monitoring & Observability",
     type |-> MONITORING,
     description |-> "Tracks system health and performance metrics",
     detailed_explanation |-> "Comprehensive monitoring stack with metrics collection, distributed tracing, log aggregation, and alerting. Provides real-time visibility into system performance and user experience.",
     technologies |-> <<"Prometheus", "Grafana", "ELK Stack", "Jaeger", "DataDog">>,
     protocols |-> <<"HTTP", "gRPC", "StatsD", "OpenTelemetry">>,
     capacity_metrics |-> [metrics_per_second |-> 100000000,
         log_entries_per_second |-> 10000000,
         alerts_per_day |-> 1000,
         dashboards |-> 5000],
     position |-> [x |-> 600,
         y |-> 250],
     connections |-> <<"message_queue", "game_server", "database">>,
     difficulty_level |-> INTERMEDIATE,
     step_order |-> 8],
    \* src/backend/server.py:239-256
    [name |-> "Security & DDoS Protection",
     type |-> SECURITY,
     description |-> "Protects against attacks and unauthorized access",
     detailed_explanation |-> "Multi-layered security including DDoS protection, Web Application Firewall, intrusion detection, and rate limiting. Implements OAuth, JWT tokens, and encryption for secure communication.",
     technologies |-> <<"Cloudflare", "AWS Shield", "WAF", "OAuth 2.0", "JWT">>,
     protocols |-> <<"HTTPS", "OAuth", "JWT", "TLS 1.3">>,
     capacity_metrics |-> [requests_filtered_per_second |-> 1000000,
         attack_mitigation_time_ms |-> 100,
         false_positive_rate |-> [num |-> 1, den |-> 10],
         security_events_per_day |-> 100000],
     position |-> [x |-> 50,
         y |-> 250],
     connections |-> <<"load_balancer", "api_gateway">>,
     difficulty_level |-> ADVANCED,
     step_order |-> 9],
    \* src/backend/server.py:257-274
    [name |-> "Data Storage & Analytics",
     type |-> STORAGE,
     description |-> "Stores game assets, logs, and analytics data",
     detailed_explanation |-> "Distributed storage system for game assets, player data, and analytics. Uses object storage, data lakes, and real-time analytics for business intelligence and game optimization.",
     technologies |-> <<"AWS S3", "HDFS", "Snowflake", "Apache Spark", "BigQuery">>,
     protocols |-> <<"HTTP", "HDFS Protocol", "SQL", "Parquet">>,
     capacity_metrics |-> [storage_pb |-> 100,
         files_count |-> 1000000000,
         analytics_queries_per_day |-> 1000000,
         data_processing_tb_per_day |-> 1000],
     position |-> [x |-> 400,
         y |-> 100],
     connections |-> <<"cdn", "game_server", "monitoring">>,
     difficulty_level |-> INTERMEDIATE,
     step_order |-> 10]
  >>

SeedSteps ==
  <<
    \* src/backend/server.py:284-297
    [step_number |-> 1,
     title |-> "Player Request Arrives",
     description |-> "A player opens Roblox and makes a request to join a game",
     components_involved |-> <<"load_balancer", "security">>,
     diagram_focus |-> <<"load_balancer">>,
     technical_details |-> [request_flow |-> "Client -> DNS -> Global Load Balancer -> Regional Load Balancer",
         protocols |-> <<"DNS", "HTTP/2", "TLS 1.3">>,
         latency_target |-> "< 50ms"],
     beginner_explanation |-> "When you click 'Play' on a Roblox game, your request first goes to a load balancer that decides which server should handle your request based on your location and server capacity.",
     advanced_explanation |-> "The global load balancer uses GeoDNS and anycast routing to direct the request to the optimal regional cluster. It performs health checks, capacity assessment, and implements sticky sessions for connection persistence."],
    \* src/backend/server.py:298-311
    [step_number |-> 2,
     title |-> "Security & DDoS Protection",
     description |-> "Request passes through security layers and DDoS protection",
     components_involved |-> <<"security", "load_balancer">>,
     diagram_focus |-> <<"security">>,
     technical_details |-> [security_layers |-> <<"Rate Limiting", "WAF", "DDoS Protection", "IP Reputation">>,
         processing_time |-> "< 5ms",
         blocked_requests_per_second |-> 100000],
     beginner_explanation |-> "Before your request reaches the game servers, it passes through security systems that block malicious traffic and protect against attacks.",
     advanced_explanation |-> "Multi-layered security including L3/L4 DDoS protection, L7 WAF rules, behavioral analysis, and machine learning-based threat detection. Implements challenge-response for suspicious traffic."],
    \* src/backend/server.py:312-325
    [step_number |-> 3,
     title |-> "CDN Asset Delivery",
     description |-> "Game assets are served from the nearest CDN edge location",
     components_involved |-> <<"cdn", "storage">>,
     diagram_focus |-> <<"cdn">>,
     technical_details |-> [cache_strategy |-> "LRU with TTL",
         edge_locations |-> 200,
         cache_hit_ratio |-> 95],
     beginner_explanation |-> "Game graphics, sounds, and other files are loaded from servers close to your location for faster loading times.",
     advanced_explanation |-> "Intelligent edge caching with dynamic content optimization, image compression, and prefetching. Uses HTTP/2 push and service workers for optimal asset delivery."],
    \* src/backend/server.py:326-339
    [step_number |-> 4,
     title |-> "API Gateway Routing",
     description |-> "Request is routed to appropriate microservices",
     components_involved |-> <<"api_gateway", "game_server">>,
     diagram_focus |-> <<"api_gateway">>,
     technical_details |-> [routing_algorithm |-> "Weighted Round Robin",
         circuit_breaker |-> "Enabled",
         retry_policy |-> "Exponential Backoff"],
     beginner_explanation |-> "The API Gateway acts like a smart router that sends different types of requests to the right services that can handle them.",
     advanced_explanation |-> "Service mesh with intelligent routing, load balancing, circuit breaking, and distributed tracing. Implements canary deployments and A/B testing capabilities."],
    \* src/backend/server.py:340-353
    [step_number |-> 5,
     title |-> "Game Server Assignment",
     description |-> "Player is assigned to an optimal game server instance",
     components_involved |-> <<"game_server", "database", "cache">>,
     diagram_focus |-> <<"game_server">>,
     technical_details |-> [placement_algorithm |-> "Proximity + Capacity",
         server_capacity |-> 100,
         scaling_strategy |-> "Horizontal Auto-scaling"],
     beginner_explanation |-> "You're connected to a game server that has space and is close to your location for the best gaming experience.",
     advanced_explanation |-> "Kubernetes-based orchestration with custom scheduler considering latency, resource utilization, and game-specific requirements. Implements predictive scaling and resource quotas."],
    \* src/backend/server.py:354-367
    [step_number |-> 6,
     title |-> "Database Operations",
     description |-> "Player data and game state are retrieved from distributed databases",
     components_involved |-> <<"database", "cache">>,
     diagram_focus |-> <<"database">>,
     technical_details |-> [sharding_strategy |-> "Consistent Hashing",
         replication_factor |-> 3,
         consistency_model |-> "Eventually Consistent"],
     beginner_explanation |-> "Your player profile, inventory, and game progress are loaded from databases that store millions of players' information.",
     advanced_explanation |-> "Horizontally partitioned databases with read replicas, write-through caching, and conflict-free replicated data types (CRDTs) for distributed consistency."],
    \* src/backend/server.py:368-381
    [step_number |-> 7,
     title |-> "Real-time Communication",
     description |-> "WebSocket connections established for real-time gameplay",
     components_involved |-> <<"message_queue", "game_server">>,
     diagram_focus |-> <<"message_queue">>,
     technical_details |-> [protocol |-> "WebSocket + Custom Binary",
         message_rate |-> "30 FPS",
         compression |-> "LZ4"],
     beginner_explanation |-> "A fast, continuous connection is established so you can see other players' actions in real-time as you play.",
     advanced_explanation |-> "Event-driven architecture with message queues, event sourcing, and CQRS pattern. Implements delta compression and client-side prediction for smooth gameplay."],
    \* src/backend/server.py:382-395
    [step_number |-> 8,
     title |-> "Monitoring & Analytics",
     description |-> "System continuously monitors performance and player behavior",
     components_involved |-> <<"monitoring", "storage">>,
     diagram_focus |-> <<"monitoring">>,
     technical_details |-> [metrics_collection |-> "Prometheus + Custom Collectors",
         log_aggregation |-> "ELK Stack",
         alerting |-> "PagerDuty Integration"],
     beginner_explanation |-> "Behind the scenes, systems constantly check that everything is working properly and collect data to improve the game.",
     advanced_explanation |-> "Distributed tracing with OpenTelemetry, real-time anomaly detection, and machine learning-based capacity planning. Implements SLI/SLO monitoring and automated remediation."]
  >>

\* ---------------------------------------------------------------- bounds

\* Number of startup sequences that may be begun in one behaviour.
MaxStartups == 2

\* Number of times the latest lifecycle step passes from one instance to
\* another in one behaviour.
MaxSwitches == 2

\* ----------------------------------------------------------------- state

VARIABLES
  components,   \* db.components: documents in insertion order
  steps,        \* db.steps: documents in insertion order
  pc,           \* pc[p]: where instance p is in its lifecycle
  idx,          \* idx[p]: seed items already inserted by p's current loop
  run,          \* run[p]: number of the startup sequence p is running / ran
  started,      \* startup sequences begun so far
  resp,         \* response produced by the step just taken
  remembered,   \* an earlier calculate-capacity call kept for comparison
  running,      \* instance whose lifecycle took the latest step, None at first
  switches      \* times the latest lifecycle step passed to another instance

vars == <<components, steps, pc, idx, run, started, resp, remembered,
          running, switches>>

\* Service instances that share the store.
Instances == {"main", "other"}

\* The instance that runs alone in Spec.
Main == "main"

\* ------------------------------------------------------------- documents

\* Bug variant of uuid4: one identifier for every document of a run.
uuid4_per_run(e, k) == <<e, 0>>

\* Bug variant of uuid4: the identifier depends on the seed position only,
\* so every run issues the same identifiers.
uuid4_by_position(e, k) == <<0, k>>

\* str(uuid.uuid4()): the k-th identifier drawn by startup run e.
uuid4(e, k) == <<e, k>>

\* datetime.utcnow() during startup run e.
utcnow(e) == e

\* The ObjectId the driver adds to an inserted document.
ObjectId(e, k) == <<"oid", e, k>>

\* ArchitectureComponent(**comp_data).dict(), then insert_one adds _id.
ComponentDocument(comp_data, e, k) ==
  [_id |-> ObjectId(e, k),
   id |-> uuid4(e, k),
   name |-> comp_data.name,
   type |-> comp_data.type,
   description |-> comp_data.description,
   detailed_explanation |-> comp_data.detailed_explanation,
   technologies |-> comp_data.technologies,
   protocols |-> comp_data.protocols,
   capacity_metrics |-> comp_data.capacity_metrics,
   position |-> comp_data.position,
   connections |-> comp_data.connections,
   difficulty_level |-> comp_data.difficulty_level,
   step_order |-> comp_data.step_order,
   created_at |-> utcnow(e)]

\* StepExplanation(**step_data).dict(), then insert_one adds _id.
StepDocument(step_data, e, k) ==
  [_id |-> ObjectId(e, k),
   id |-> uuid4(e, k),
   step_number |-> step_data.step_number,
   title |-> step_data.title,
   description |-> step_data.description,
   components_involved |-> step_data.components_involved,
   diagram_focus |-> step_data.diagram_focus,
   technical_details |-> step_data.technical_details,
   beginner_explanation |-> step_data.beginner_explanation,
   advanced_explanation |-> step_data.advanced_explanation]

\* ArchitectureComponent(**comp): the declared fields of a stored document
\* (the undeclared _id is ignored).
ArchitectureComponent(comp) ==
  [id |-> comp.id,
   name |-> comp.name,
   type |-> comp.type,
   description |-> comp.description,
   detailed_explanation |-> comp.detailed_explanation,
   technologies |-> comp.technologies,
   protocols |-> comp.protocols,
   capacity_metrics |-> comp.capacity_metrics,
   position |-> comp.position,
   connections |-> comp.connections,
   difficulty_level |-> comp.difficulty_level,
   step_order |-> comp.step_order,
   created_at |-> comp.created_at]

\* StepExplanation(**step): the declared fields of a stored document.
StepExplanation(step) ==
  [id |-> step.id,
   step_number |-> step.step_number,
   title |-> step.title,
   description |-> step.description,
   components_involved |-> step.components_involved,
   diagram_focus |-> step.diagram_focus,
   technical_details |-> step.technical_details,
   beginner_explanation |-> step.beginner_explanation,
   advanced_explanation |-> step.advanced_explanation]

\* ------------------------------------------------------ store operations

\* A document matches a query when it has the query's value in every field
\* the query names; the empty query matches every document.
Matches(doc, query) == \A f \in DOMAIN query : doc[f] = query[f]

\* Positions of the documents of coll that match query.
find(coll, query) == {i \in DOMAIN coll : Matches(coll[i], query)}

\* Bug variant of sort: descending order.
RECURSIVE sort_descending(_, _, _)
sort_descending(coll, I, key) ==
  IF I = {} THEN {<<>>}
  ELSE UNION {{<<coll[i]>> \o rest : rest \in sort_descending(coll, I \ {i}, key)} :
               i \in {j \in I : \A k \in I : coll[j][key] >= coll[k][key]}}

\* cursor.sort(key, 1): every ascending arrangement of the documents at
\* positions I. The store leaves the order of equal keys unspecified, so
\* each arrangement of ties is a possible result.
RECURSIVE sort(_, _, _)
sort(coll, I, key) ==
  IF I = {} THEN {<<>>}
  ELSE UNION {{<<coll[i]>> \o rest : rest \in sort(coll, I \ {i}, key)} :
               i \in {j \in I : \A k \in I : coll[j][key] <= coll[k][key]}}

\* Length passed to every to_list call.
ToListLength == 100

\* cursor.to_list(length): at most length documents.
to_list(docs, length) ==
  SubSeq(docs, 1, IF Len(docs) < length THEN Len(docs) ELSE length)

\* No document: what find_one returns when nothing matches.
NoDocument == <<>>

\* collection.find_one(query): a matching document, NoDocument if none.
find_one(coll, query) ==
  IF find(coll, query) = {} THEN {NoDocument}
  ELSE {coll[i] : i \in find(coll, query)}

\* ------------------------------------------------------------- responses

NoResponse == [endpoint |-> "none", request |-> <<>>, status |-> 0, body |-> <<>>]

Response(endpoint, request, status, body) ==
  [endpoint |-> endpoint, request |-> request, status |-> status, body |-> body]

\* raise HTTPException(status_code=404, detail=...)
HTTPException(status_code, detail) ==
  [status |-> status_code, body |-> [detail |-> detail]]

\* --------------------------------------------------------------- startup

\* The processes' event loops run independently, so the lifecycle steps of
\* several instances reach the store in any order: this step is p's, and it
\* counts as a switch when the latest one was another instance's.
Scheduled(p) ==
  /\ running' = p
  /\ IF running \in {None, p}
       THEN switches' = switches
       ELSE /\ switches < MaxSwitches
            /\ switches' = switches + 1

\* The process of instance p starts; its startup handler begins.
Start(p) ==
  /\ pc[p] \in {"stopped", "failed"}
  /\ started < MaxStartups
  /\ started' = started + 1
  /\ run' = [run EXCEPT ![p] = started + 1]
  /\ pc' = [pc EXCEPT ![p] = "delete_components"]
  /\ idx' = [idx EXCEPT ![p] = 0]
  /\ Scheduled(p)
  /\ resp' = NoResponse
  /\ UNCHANGED <<components, steps, remembered>>

\* Bug variant of DeleteComponents: the delete misses the first stored
\* component.
DeleteComponents_keeps_first(p) ==
  /\ pc[p] = "delete_components"
  /\ components' = IF components = <<>> THEN <<>> ELSE <<components[1]>>
  /\ pc' = [pc EXCEPT ![p] = "delete_steps"]
  /\ Scheduled(p)
  /\ resp' = NoResponse
  /\ UNCHANGED <<steps, idx, run, started, remembered>>

\* await db.components.delete_many({})
DeleteComponents(p) ==
  /\ pc[p] = "delete_components"
  /\ components' = <<>>
  /\ pc' = [pc EXCEPT ![p] = "delete_steps"]
  /\ Scheduled(p)
  /\ resp' = NoResponse
  /\ UNCHANGED <<steps, idx, run, started, remembered>>

\* Bug variant of DeleteSteps: the delete misses the first stored step.
DeleteSteps_keeps_first(p) ==
  /\ pc[p] = "delete_steps"
  /\ steps' = IF steps = <<>> THEN <<>> ELSE <<steps[1]>>
  /\ pc' = [pc EXCEPT ![p] = "insert_components"]
  /\ idx' = [idx EXCEPT ![p] = 0]
  /\ Scheduled(p)
  /\ resp' = NoResponse
  /\ UNCHANGED <<components, run, started, remembered>>

\* await db.steps.delete_many({})
DeleteSteps(p) ==
  /\ pc[p] = "delete_steps"
  /\ steps' = <<>>
  /\ pc' = [pc EXCEPT ![p] = "insert_components"]
  /\ idx' = [idx EXCEPT ![p] = 0]
  /\ Scheduled(p)
  /\ resp' = NoResponse
  /\ UNCHANGED <<components, run, started, remembered>>

\* Bug variant of InsertComponent: the loop leaves out the last seed entry.
InsertComponent_stops_early(p) ==
  /\ pc[p] = "insert_components"
  /\ idx[p] < Len(SeedComponents) - 1
  /\ components' =
       Append(components,
              ComponentDocument(SeedComponents[idx[p] + 1], run[p], idx[p] + 1))
  /\ IF idx[p] + 1 = Len(SeedComponents) - 1
       THEN /\ pc' = [pc EXCEPT ![p] = "insert_steps"]
            /\ idx' = [idx EXCEPT ![p] = 0]
       ELSE /\ pc' = pc
            /\ idx' = [idx EXCEPT ![p] = idx[p] + 1]
  /\ Scheduled(p)
  /\ resp' = NoResponse
  /\ UNCHANGED <<steps, run, started, remembered>>

\* One iteration of "for comp_data in components": build and insert.
InsertComponent(p) ==
  /\ pc[p] = "insert_components"
  /\ idx[p] < Len(SeedComponents)
  /\ components' =
       Append(components,
              ComponentDocument(SeedComponents[idx[p] + 1], run[p], idx[p] + 1))
  /\ IF idx[p] + 1 = Len(SeedComponents)
       THEN /\ pc' = [pc EXCEPT ![p] = "insert_steps"]
            /\ idx' = [idx EXCEPT ![p] = 0]
       ELSE /\ pc' = pc
            /\ idx' = [idx EXCEPT ![p] = idx[p] + 1]
  /\ Scheduled(p)
  /\ resp' = NoResponse
  /\ UNCHANGED <<steps, run, started, remembered>>

\* Bug variant of InsertStep: every seed step is inserted twice.
InsertStep_twice(p) ==
  /\ pc[p] = "insert_steps"
  /\ idx[p] < Len(SeedSteps)
  /\ steps' =
       steps \o
         <<StepDocument(SeedSteps[idx[p] + 1], run[p],
                        Len(SeedComponents) + idx[p] + 1),
           StepDocument(SeedSteps[idx[p] + 1], run[p],
                        Len(SeedComponents) + idx[p] + 1)>>
  /\ IF idx[p] + 1 = Len(SeedSteps)
       THEN /\ pc' = [pc EXCEPT ![p] = "done"]
            /\ idx' = [idx EXCEPT ![p] = 0]
       ELSE /\ pc' = pc
            /\ idx' = [idx EXCEPT ![p] = idx[p] + 1]
  /\ Scheduled(p)
  /\ resp' = NoResponse
  /\ UNCHANGED <<components, run, started, remembered>>

\* One iteration of "for step_data in steps": build and insert; after the
\* last one the handler returns and the instance is up.
InsertStep(p) ==
  /\ pc[p] = "insert_steps"
  /\ idx[p] < Len(SeedSteps)
  /\ steps' =
       Append(steps,
              StepDocument(SeedSteps[idx[p] + 1], run[p],
                           Len(SeedComponents) + idx[p] + 1))
  /\ IF idx[p] + 1 = Len(SeedSteps)
       THEN /\ pc' = [pc EXCEPT ![p] = "done"]
            /\ idx' = [idx EXCEPT ![p] = 0]
       ELSE /\ pc' = pc
            /\ idx' = [idx EXCEPT ![p] = idx[p] + 1]
  /\ Scheduled(p)
  /\ resp' = NoResponse
  /\ UNCHANGED <<components, run, started, remembered>>

\* Bug variant of StartupFails: the failing handler empties both collections.
StartupFails_cleans_up(p) ==
  /\ pc[p] \in {"delete_components", "delete_steps", "insert_components",
                "insert_steps"}
  /\ pc' = [pc EXCEPT ![p] = "failed"]
  /\ components' = <<>>
  /\ steps' = <<>>
  /\ Scheduled(p)
  /\ resp' = NoResponse
  /\ UNCHANGED <<idx, run, started, remembered>>

\* An awaited store call of the startup handler raises: the handler ends
\* there, nothing is undone and the instance does not come up.
StartupFails(p) ==
  /\ pc[p] \in {"delete_components", "delete_steps", "insert_components",
                "insert_steps"}
  /\ pc' = [pc EXCEPT ![p] = "failed"]
  /\ Scheduled(p)
  /\ resp' = NoResponse
  /\ UNCHANGED <<components, steps, idx, run, started, remembered>>

\* shutdown_db_client: the instance stops and closes its client.
Shutdown(p) ==
  /\ pc[p] = "done"
  /\ pc' = [pc EXCEPT ![p] = "stopped"]
  /\ Scheduled(p)
  /\ resp' = NoResponse
  /\ UNCHANGED <<components, steps, idx, run, started, remembered>>

\* -------------------------------------------------------- read endpoints

\* GET /components[?difficulty=...]
get_components(difficulty) ==
  LET query == IF difficulty # None
                 THEN [difficulty_level |-> difficulty]
                 ELSE <<>>
  IN /\ \E found \in sort(components, find(components, query), "step_order") :
          resp' = Response("get_components", [difficulty |-> difficulty], 200,
                           [i \in DOMAIN to_list(found, ToListLength) |->
                              ArchitectureComponent(to_list(found, ToListLength)[i])])
     /\ UNCHANGED <<components, steps, pc, idx, run, started, remembered,
                    running, switches>>

\* GET /components/{component_id}
get_component(component_id) ==
  /\ \E component \in find_one(components, [id |-> component_id]) :
       resp' = IF component = NoDocument
                THEN LET e == HTTPException(404, "Component not found")
                     IN Response("get_component", [component_id |-> component_id],
                                 e.status, e.body)
                ELSE Response("get_component", [component_id |-> component_id],
                              200, ArchitectureComponent(component))
  /\ UNCHANGED <<components, steps, pc, idx, run, started, remembered,
                 running, switches>>

\* Bug variant of get_steps: the listing removes what it returns.
get_steps_drains ==
  /\ \E found \in sort(steps, find(steps, <<>>), "step_number") :
       resp' = Response("get_steps", <<>>, 200,
                        [i \in DOMAIN to_list(found, ToListLength) |->
                           StepExplanation(to_list(found, ToListLength)[i])])
  /\ steps' = <<>>
  /\ UNCHANGED <<components, pc, idx, run, started, remembered,
                 running, switches>>

\* GET /steps
get_steps ==
  /\ \E found \in sort(steps, find(steps, <<>>), "step_number") :
       resp' = Response("get_steps", <<>>, 200,
                        [i \in DOMAIN to_list(found, ToListLength) |->
                           StepExplanation(to_list(found, ToListLength)[i])])
  /\ UNCHANGED <<components, steps, pc, idx, run, started, remembered,
                 running, switches>>

\* Bug variant of get_step: the path number is taken as a zero-based position.
get_step_zero_based(step_number) ==
  /\ \E step \in find_one(steps, [step_number |-> step_number + 1]) :
       resp' = IF step = NoDocument
                THEN LET e == HTTPException(404, "Step not found")
                     IN Response("get_step", [step_number |-> step_number],
                                 e.status, e.body)
                ELSE Response("get_step", [step_number |-> step_number],
                              200, StepExplanation(step))
  /\ UNCHANGED <<components, steps, pc, idx, run, started, remembered,
                 running, switches>>

\* GET /steps/{step_number}
get_step(step_number) ==
  /\ \E step \in find_one(steps, [step_number |-> step_number]) :
       resp' = IF step = NoDocument
                THEN LET e == HTTPException(404, "Step not found")
                     IN Response("get_step", [step_number |-> step_number],
                                 e.status, e.body)
                ELSE Response("get_step", [step_number |-> step_number],
                              200, StepExplanation(step))
  /\ UNCHANGED <<components, steps, pc, idx, run, started, remembered,
                 running, switches>>

\* ---------------------------------------------------- Python arithmetic

\* A float, held as the exact rational num/den with den > 0.
Float(num, den) ==
  IF den < 0 THEN [num |-> -num, den |-> -den] ELSE [num |-> num, den |-> den]

\* a / b on two ints, b # 0 (true division).
truediv(a, b) == Float(a, b)

\* The float literals of the calculator.
TenthLiteral == Float(1, 10)

HundredthLiteral == Float(1, 100)

ThousandthLiteral == Float(1, 1000)

EightTenthsLiteral == Float(8, 10)

\* a * f for an int a and a float f.
mul(a, f) == Float(a * f.num, f.den)

\* Bug variant of math_ceil: the floor.
math_floor(f) == f.num \div f.den

\* math.ceil(f): the least integer not below f.
math_ceil(f) == -((-f.num) \div f.den)

\* Bug variant of int: rounding down instead of toward zero.
int_floor(f) == f.num \div f.den

\* int(f): f rounded toward zero.
int(f) == IF f.num >= 0 THEN f.num \div f.den ELSE -((-f.num) \div f.den)

\* Bug variant of max: the smaller value.
min(a, b) == IF a <= b THEN a ELSE b

\* max(a, b)
max(a, b) == IF a >= b THEN a ELSE b

\* dict.get(key, default)
get(inputs, key, default) == IF key \in DOMAIN inputs THEN inputs[key] ELSE default

DigitChars == <<"0", "1", "2", "3", "4", "5", "6", "7", "8", "9">>

\* str(n) for n >= 0
RECURSIVE digits(_)
digits(n) ==
  IF n < 10 THEN DigitChars[n + 1]
  ELSE digits(n \div 10) \o DigitChars[(n % 10) + 1]

\* f"{n}" for an int
str(n) == IF n < 0 THEN "-" \o digits(-n) ELSE digits(n)

\* The digits of n >= 0 in groups of three separated by commas.
RECURSIVE grouped(_)
grouped(n) ==
  IF n < 1000 THEN digits(n)
  ELSE grouped(n \div 1000) \o ","
         \o DigitChars[((n \div 100) % 10) + 1]
         \o DigitChars[((n \div 10) % 10) + 1]
         \o DigitChars[(n % 10) + 1]

\* f"{n:,}" for an int
format_thousands(n) == IF n < 0 THEN "-" \o grouped(-n) ELSE grouped(n)

\* --------------------------------------------------- capacity calculator

\* A branch that ran to its end.
Returned(result, explanation) ==
  [raised |-> None, result |-> result, explanation |-> explanation]

\* A branch that raised an exception no handler catches.
Raised(exception) ==
  [raised |-> exception, result |-> <<>>, explanation |-> ""]

DefaultConcurrentPlayers == 26000000

DefaultPlayersPerServer == 100

DefaultReadsPerSecond == 2000000

DefaultWritesPerSecond == 500000

DefaultRequestsPerSecond == 2000000

\* The ComponentType.GAME_SERVER branch.
game_server_capacity(inputs) ==
  LET players == get(inputs, "concurrent_players", DefaultConcurrentPlayers)
      players_per_server == get(inputs, "players_per_server", DefaultPlayersPerServer)
  IN IF players_per_server = 0
       THEN Raised("ZeroDivisionError")
       ELSE LET servers_needed == math_ceil(truediv(players, players_per_server))
            IN Returned(
                 [servers_needed |-> servers_needed,
                  cpu_cores_total |-> servers_needed * 4,
                  memory_gb_total |-> servers_needed * 8,
                  network_gbps |-> mul(servers_needed, TenthLiteral)],
                 "For " \o format_thousands(players)
                   \o " concurrent players with " \o str(players_per_server)
                   \o " players per server, you need "
                   \o format_thousands(servers_needed) \o " game servers.")

\* Bug variant of database_capacity: the counts are not clamped to 1.
database_capacity_unclamped(inputs) ==
  LET reads_per_second == get(inputs, "reads_per_second", DefaultReadsPerSecond)
      writes_per_second == get(inputs, "writes_per_second", DefaultWritesPerSecond)
      result ==
        [read_replicas_needed |-> int(truediv(reads_per_second, 10000)),
         write_masters_needed |-> int(truediv(writes_per_second, 5000)),
         storage_tb_needed |->
           int(mul(reads_per_second + writes_per_second, ThousandthLiteral)),
         shards_needed |->
           int(truediv(reads_per_second + writes_per_second, 50000))]
  IN Returned(
       result,
       "For " \o format_thousands(reads_per_second) \o " reads/sec and "
         \o format_thousands(writes_per_second) \o " writes/sec, you need "
         \o str(result.read_replicas_needed) \o " read replicas and "
         \o str(result.shards_needed) \o " shards.")

\* The ComponentType.DATABASE branch.
database_capacity(inputs) ==
  LET reads_per_second == get(inputs, "reads_per_second", DefaultReadsPerSecond)
      writes_per_second == get(inputs, "writes_per_second", DefaultWritesPerSecond)
      result ==
        [read_replicas_needed |-> max(1, int(truediv(reads_per_second, 10000))),
         write_masters_needed |-> max(1, int(truediv(writes_per_second, 5000))),
         storage_tb_needed |->
           int(mul(reads_per_second + writes_per_second, ThousandthLiteral)),
         shards_needed |->
           max(1, int(truediv(reads_per_second + writes_per_second, 50000)))]
  IN Returned(
       result,
       "For " \o format_thousands(reads_per_second) \o " reads/sec and "
         \o format_thousands(writes_per_second) \o " writes/sec, you need "
         \o str(result.read_replicas_needed) \o " read replicas and "
         \o str(result.shards_needed) \o " shards.")

\* The ComponentType.LOAD_BALANCER branch.
load_balancer_capacity(inputs) ==
  LET requests_per_second ==
        get(inputs, "requests_per_second", DefaultRequestsPerSecond)
      result ==
        [load_balancers_needed |-> max(1, int(truediv(requests_per_second, 100000))),
         bandwidth_gbps |-> int(mul(requests_per_second, HundredthLiteral)),
         ssl_termination_capacity |-> int(mul(requests_per_second, EightTenthsLiteral)),
         health_checks_per_second |-> int(mul(requests_per_second, TenthLiteral))]
  IN Returned(
       result,
       "For " \o format_thousands(requests_per_second)
         \o " requests/sec, you need " \o str(result.load_balancers_needed)
         \o " load balancers with " \o str(result.bandwidth_gbps)
         \o " Gbps bandwidth.")

\* Bug variant of not_implemented_capacity: the branch raises.
not_implemented_raises == [raised |-> "NotImplementedError", result |-> <<>>, explanation |-> ""]

\* The else branch: every other component type.
not_implemented_capacity ==
  Returned([message |-> "Capacity calculation not implemented for this component type"],
           "Capacity calculation not available for this component.")

\* The if / elif chain on component["type"].
capacity(type, inputs) ==
  IF type = GAME_SERVER THEN game_server_capacity(inputs)
  ELSE IF type = DATABASE THEN database_capacity(inputs)
  ELSE IF type = LOAD_BALANCER THEN load_balancer_capacity(inputs)
  ELSE not_implemented_capacity

\* What the server answers when a handler raises anything but HTTPException.
InternalServerError == [status |-> 500, body |-> "Internal Server Error"]

\* Bug variant of calculate_capacity: the label "peak" selects the defaults.
calculate_capacity_by_label(calculation) ==
  /\ \E component \in find_one(components, [id |-> calculation.component_id]) :
       resp' =
         IF component = NoDocument
           THEN LET e == HTTPException(404, "Component not found")
                IN Response("calculate_capacity", calculation, e.status, e.body)
           ELSE LET out == capacity(component.type,
                                    IF calculation.calculation_type = "peak"
                                      THEN <<>>
                                      ELSE calculation.inputs)
                IN IF out.raised # None
                     THEN Response("calculate_capacity", calculation, 500,
                                   "Internal Server Error")
                     ELSE Response("calculate_capacity", calculation, 200,
                                   [component_id |-> calculation.component_id,
                                    calculation_type |-> calculation.calculation_type,
                                    inputs |-> calculation.inputs,
                                    result |-> out.result,
                                    explanation |-> out.explanation])
  /\ UNCHANGED <<components, steps, pc, idx, run, started, remembered,
                 running, switches>>

\* POST /calculate-capacity
calculate_capacity(calculation) ==
  /\ \E component \in find_one(components, [id |-> calculation.component_id]) :
       resp' =
         IF component = NoDocument
           THEN LET e == HTTPException(404, "Component not found")
                IN Response("calculate_capacity", calculation, e.status, e.body)
           ELSE LET out == capacity(component.type, calculation.inputs)
                IN IF out.raised # None
                     THEN Response("calculate_capacity", calculation,
                                   InternalServerError.status,
                                   InternalServerError.body)
                     ELSE Response("calculate_capacity", calculation, 200,
                                   [component_id |-> calculation.component_id,
                                    calculation_type |-> calculation.calculation_type,
                                    inputs |-> calculation.inputs,
                                    result |-> out.result,
                                    explanation |-> out.explanation])
  /\ UNCHANGED <<components, steps, pc, idx, run, started, remembered,
                 running, switches>>

\* Bug variant of get_overview: the server count is taken from the store.
get_overview_counts_store ==
  /\ resp' = Response("get_overview", <<>>, 200,
                      [total_concurrent_players |-> 26000000,
                       total_game_servers |->
                         50000 * Cardinality(find(components, [type |-> GAME_SERVER])),
                       total_games |-> 1000000,
                       global_regions |-> 12,
                       edge_locations |-> 200,
                       requests_per_second |-> 10000000,
                       data_processed_per_day_tb |-> 1000,
                       uptime_percentage |-> [num |-> 9999, den |-> 100]])
  /\ UNCHANGED <<components, steps, pc, idx, run, started, remembered,
                 running, switches>>

\* GET /overview
get_overview ==
  /\ resp' = Response("get_overview", <<>>, 200,
                      [total_concurrent_players |-> 26000000,
                       total_game_servers |-> 50000,
                       total_games |-> 1000000,
                       global_regions |-> 12,
                       edge_locations |-> 200,
                       requests_per_second |-> 10000000,
                       data_processed_per_day_tb |-> 1000,
                       uptime_percentage |-> [num |-> 9999, den |-> 100]])
  /\ UNCHANGED <<components, steps, pc, idx, run, started, remembered,
                 running, switches>>

\* ------------------------------------------------------- initial states

\* The first n seed components as startup run e inserts them.
SeededComponents(e, n) ==
  [i \in 1..n |-> ComponentDocument(SeedComponents[i], e, i)]

\* The first n seed steps as startup run e inserts them.
SeededSteps(e, n) ==
  [i \in 1..n |-> StepDocument(SeedSteps[i], e, Len(SeedComponents) + i)]

\* What two startup runs a and b leave when each inserted its first n
\* components in alternation.
RECURSIVE InterleavedComponents(_, _, _)
InterleavedComponents(a, b, n) ==
  IF n = 0 THEN <<>>
  ELSE InterleavedComponents(a, b, n - 1)
         \o <<ComponentDocument(SeedComponents[n], a, n),
              ComponentDocument(SeedComponents[n], b, n)>>

\* Contents the store can hold when a process starts: nothing (first run),
\* the seed of an earlier run, the remnant of an earlier run that failed
\* while inserting, the remnant of two earlier runs that interleaved and
\* failed.
PreviousStores ==
  { [components |-> <<>>, steps |-> <<>>],
    [components |-> SeededComponents(0, Len(SeedComponents)),
     steps |-> SeededSteps(0, Len(SeedSteps))],
    [components |-> SeededComponents(0, 3), steps |-> <<>>],
    [components |-> InterleavedComponents(-1, 0, 2), steps |-> <<>>] }

Init ==
  /\ \E s \in PreviousStores : components = s.components /\ steps = s.steps
  /\ \E other \in {"stopped", "done"} :
       pc = [p \in Instances |-> IF p = Main THEN "stopped" ELSE other]
  /\ idx = [p \in Instances |-> 0]
  /\ run = [p \in Instances |-> 0]
  /\ started = 0
  /\ resp = NoResponse
  /\ remembered = <<>>
  /\ running = None
  /\ switches = 0

\* ------------------------------------------------------- request inputs

\* An identifier no startup run ever issued.
NeverIssued == <<0, 0>>

\* Identifiers a client may ask for: those of the stored documents, one an
\* earlier run issued (the game server of run 0), one never issued.
RequestIds ==
  {components[i].id : i \in DOMAIN components}
    \cup {steps[i].id : i \in DOMAIN steps}
    \cup {uuid4(0, 4), NeverIssued}

\* Step numbers a client may ask for.
RequestStepNumbers == 0..(Len(SeedSteps) + 1)

\* Values a client may send under each input key.
InputValues ==
  [concurrent_players |-> {30000000, 250, 0, -250},
   players_per_server |-> {80, 0, -80},
   reads_per_second |-> {2000000, 25000, 0, -1500},
   writes_per_second |-> {500000, 0, -700},
   requests_per_second |-> {2000000, 150, 0, -50, -150}]

\* Every mapping that gives some of the keys one of their values.
InputsOver(keys) ==
  UNION {{f \in [K -> UNION {InputValues[k] : k \in K}] :
            \A k \in K : f[k] \in InputValues[k]} : K \in SUBSET keys}

RequestInputs ==
  InputsOver({"concurrent_players", "players_per_server"})
    \cup InputsOver({"reads_per_second", "writes_per_second"})
    \cup InputsOver({"requests_per_second"})

CalculationTypes == {"basic", "peak"}

RequestCalculations ==
  [component_id : RequestIds, calculation_type : CalculationTypes,
   inputs : RequestInputs]

\* ---------------------------------------------------------- specification

Startup(p) ==
  \/ Start(p)
  \/ DeleteComponents(p)
  \/ DeleteSteps(p)
  \/ InsertComponent(p)
  \/ InsertStep(p)
  \/ StartupFails(p)
  \/ Shutdown(p)

\* Some instance is up: its startup handler has returned.
Up == \E p \in Instances : pc[p] = "done"

\* An instance is up and the response of the request served before has
\* gone out.
Ready == Up /\ resp.endpoint = "none"

\* An instance that is up serves one request.
Serve ==
  \/ Ready /\ \E difficulty \in DifficultyLevel \cup {None} : get_components(difficulty)
  \/ Ready /\ \E component_id \in RequestIds : get_component(component_id)
  \/ Ready /\ get_steps
  \/ Ready /\ \E step_number \in RequestStepNumbers : get_step(step_number)
  \/ Ready /\ \E calculation \in RequestCalculations : calculate_capacity(calculation)
  \/ Ready /\ get_overview

\* The response goes out to the client.
Return ==
  /\ resp.endpoint # "none"
  /\ resp' = NoResponse
  /\ UNCHANGED <<components, steps, pc, idx, run, started, remembered,
                 running, switches>>

\* The main instance starts, fails, stops and restarts alone. The other
\* instance, when it is up, stays up and serves requests between any two
\* store operations of the main instance.
Next ==
  \/ Startup(Main)
  \/ Serve
  \/ Return

Spec == Init /\ [][Next]_vars

\* The client keeps a successful calculate-capacity response, with the type
\* of the component it was computed for, to compare later calls with it.
Remember ==
  /\ resp.endpoint = "calculate_capacity"
  /\ resp.status = 200
  /\ \E i \in DOMAIN components :
       /\ components[i].id = resp.request.component_id
       /\ remembered' = [type |-> components[i].type,
                         inputs |-> resp.request.inputs,
                         result |-> resp.body.result,
                         explanation |-> resp.body.explanation]
  /\ resp' = NoResponse
  /\ UNCHANGED <<components, steps, pc, idx, run, started, running, switches>>

\* Inputs of the calls that are compared pairwise.
ComparedInputs ==
  { <<>>,
    [concurrent_players |-> 250],
    [reads_per_second |-> -1500, writes_per_second |-> 0],
    [requests_per_second |-> -50] }

ComparedCalculations ==
  [component_id : RequestIds, calculation_type : CalculationTypes,
   inputs : ComparedInputs]

\* Startup without failures.
StartupSucceeds(p) ==
  \/ Start(p)
  \/ DeleteComponents(p)
  \/ DeleteSteps(p)
  \/ InsertComponent(p)
  \/ InsertStep(p)
  \/ Shutdown(p)

NextCompare ==
  \/ StartupSucceeds(Main)
  \/ Ready /\ \E calculation \in ComparedCalculations : calculate_capacity(calculation)
  \/ Return
  \/ Remember

\* Calculator calls across restarts, any one earlier call kept for comparison.
SpecCompare == Init /\ [][NextCompare]_vars

\* Both instances start, stop and restart against the same store.
NextConcurrent == \E p \in Instances : StartupSucceeds(p)

SpecConcurrent == Init /\ [][NextConcurrent]_vars

\* ================================================================ claims

\* The seed fields of a returned component (everything but id, created_at).
SeedFieldsOf(c) ==
  [name |-> c.name, type |-> c.type, description |-> c.description,
   detailed_explanation |-> c.detailed_explanation,
   technologies |-> c.technologies, protocols |-> c.protocols,
   capacity_metrics |-> c.capacity_metrics, position |-> c.position,
   connections |-> c.connections, difficulty_level |-> c.difficulty_level,
   step_order |-> c.step_order]

\* The seed fields of a returned step (everything but id).
StepSeedFieldsOf(s) ==
  [step_number |-> s.step_number, title |-> s.title,
   description |-> s.description,
   components_involved |-> s.components_involved,
   diagram_focus |-> s.diagram_focus,
   technical_details |-> s.technical_details,
   beginner_explanation |-> s.beginner_explanation,
   advanced_explanation |-> s.advanced_explanation]

\* q = floor(n / d), for d > 0
IsFloorOf(q, n, d) == q * d <= n /\ n < (q + 1) * d

\* q = ceil(n / d), for d > 0
IsCeilOf(q, n, d) == (q - 1) * d < n /\ n <= q * d

\* q = n / d rounded toward zero, for d > 0
IsTruncOf(q, n, d) == IF n >= 0 THEN IsFloorOf(q, n, d) ELSE IsCeilOf(q, n, d)

\* r = max(1, floor(n / d)), for d > 0
IsClampedFloorOf(r, n, d) == IF n >= d THEN IsFloorOf(r, n, d) ELSE r = 1

\* The response in resp answers a calculate-capacity call whose component_id
\* resolves to a stored component of one of the given types.
CalculationFor(types) ==
  /\ resp.endpoint = "calculate_capacity"
  /\ \E i \in DOMAIN components :
       /\ components[i].id = resp.request.component_id
       /\ components[i].type \in types

\* The value the calculator reads for an input key of the answered call.
InputOr(key, default) ==
  IF key \in DOMAIN resp.request.inputs THEN resp.request.inputs[key] ELSE default

\* C1: after a completed startup, List components without a filter returns
\* exactly the 10 seed components in ascending step_order 1..10, and List
\* steps returns exactly the 8 seed steps, position i holding step_number i.
C1_SeededListings ==
  pc[Main] = "done" =>
    /\ (resp.endpoint = "get_components" /\ resp.request.difficulty = None) =>
         /\ resp.status = 200
         /\ Len(resp.body) = 10
         /\ \A i \in 1..10 :
              /\ resp.body[i].step_order = i
              /\ SeedFieldsOf(resp.body[i]) = SeedComponents[i]
    /\ resp.endpoint = "get_steps" =>
         /\ resp.status = 200
         /\ Len(resp.body) = 8
         /\ \A i \in 1..8 :
              /\ resp.body[i].step_number = i
              /\ StepSeedFieldsOf(resp.body[i]) = SeedSteps[i]

\* C1 witness: the unfiltered listing answered after a startup that replaced
\* an earlier run's documents.
C1_Witness ==
  /\ pc[Main] = "done"
  /\ resp.endpoint = "get_components"
  /\ resp.request.difficulty = None
  /\ Len(resp.body) = 10
  /\ resp.body[10].step_order = 10
  /\ run[Main] = 2

\* C2: with a difficulty filter, List components returns exactly the stored
\* components of that difficulty (all of them, nothing else), ascending by
\* step_order, with status 200 even when nothing matches.
C2_FilteredListing ==
  (resp.endpoint = "get_components" /\ resp.request.difficulty \in DifficultyLevel) =>
    LET d == resp.request.difficulty
        matching == {i \in DOMAIN components : components[i].difficulty_level = d}
    IN /\ resp.status = 200
       /\ \A i \in DOMAIN resp.body : resp.body[i].difficulty_level = d
       /\ Len(resp.body) = Cardinality(matching)
       /\ {resp.body[i].id : i \in DOMAIN resp.body}
            = {components[i].id : i \in matching}
       /\ \A i, j \in DOMAIN resp.body :
            i < j => resp.body[i].step_order <= resp.body[j].step_order

\* C2 witness: the four advanced components of the seed are listed.
C2_Witness ==
  /\ resp.endpoint = "get_components"
  /\ resp.request.difficulty = ADVANCED
  /\ Len(resp.body) = 4
  /\ resp.body[1].step_order = 4
  /\ resp.body[4].step_order = 9

\* C3: Get component with an id no stored component has, and Get step with a
\* number no stored step has, answer 404 and nothing else; with a stored id
\* or number they answer 200 with one stored document having it.
C3_NotFoundOrDocument ==
  /\ resp.endpoint = "get_component" =>
       LET cid == resp.request.component_id
           stored == {i \in DOMAIN components : components[i].id = cid}
       IN IF stored = {}
            THEN resp.status = 404 /\ resp.body = [detail |-> "Component not found"]
            ELSE /\ resp.status = 200
                 /\ resp.body.id = cid
                 /\ \E i \in stored :
                      SeedFieldsOf(resp.body) = SeedFieldsOf(components[i])
  /\ resp.endpoint = "get_step" =>
       LET n == resp.request.step_number
           stored == {i \in DOMAIN steps : steps[i].step_number = n}
       IN IF stored = {}
            THEN resp.status = 404 /\ resp.body = [detail |-> "Step not found"]
            ELSE /\ resp.status = 200
                 /\ resp.body.step_number = n
                 /\ \E i \in stored :
                      /\ resp.body.id = steps[i].id
                      /\ StepSeedFieldsOf(resp.body) = StepSeedFieldsOf(steps[i])

\* C3 witness: an id issued by an earlier run is asked for while other
\* components are stored, and is not found.
C3_Witness ==
  /\ resp.endpoint = "get_component"
  /\ resp.request.component_id = <<0, 4>>
  /\ Len(components) = 10
  /\ resp.status = 404

\* C4: for a game_server component and players_per_server > 0 the calculator
\* answers servers_needed = ceil(concurrent_players / players_per_server)
\* (defaults 26,000,000 and 100), cpu_cores_total = 4 * servers_needed and
\* memory_gb_total = 8 * servers_needed; 30000000 / 80 gives 375000.
C4_GameServerCapacity ==
  LET players == InputOr("concurrent_players", 26000000)
      per_server == InputOr("players_per_server", 100)
  IN (CalculationFor({GAME_SERVER}) /\ per_server > 0) =>
       /\ resp.status = 200
       /\ IsCeilOf(resp.body.result.servers_needed, players, per_server)
       /\ resp.body.result.cpu_cores_total = resp.body.result.servers_needed * 4
       /\ resp.body.result.memory_gb_total = resp.body.result.servers_needed * 8
       /\ (players = 30000000 /\ per_server = 80) =>
            resp.body.result.servers_needed = 375000

\* C4 witness: the scenario 30000000 players at 80 per server is answered.
C4_Witness ==
  /\ CalculationFor({GAME_SERVER})
  /\ resp.request.inputs = [concurrent_players |-> 30000000, players_per_server |-> 80]
  /\ resp.status = 200
  /\ resp.body.result.servers_needed = 375000

\* C5 as stated: for a database component and all integer inputs (defaults
\* 2,000,000 and 500,000) read_replicas_needed = max(1, floor(reads/10000)),
\* write_masters_needed = max(1, floor(writes/5000)), storage_tb_needed =
\* floor((reads+writes) * 0.001), shards_needed = max(1, floor((reads+writes)
\* / 50000)); reads 2000000 and writes 500000 give 200 replicas, 50 shards.
C5_DatabaseCapacityFloor ==
  LET reads == InputOr("reads_per_second", 2000000)
      writes == InputOr("writes_per_second", 500000)
  IN CalculationFor({DATABASE}) =>
       /\ resp.status = 200
       /\ IsClampedFloorOf(resp.body.result.read_replicas_needed, reads, 10000)
       /\ IsClampedFloorOf(resp.body.result.write_masters_needed, writes, 5000)
       /\ IsFloorOf(resp.body.result.storage_tb_needed, reads + writes, 1000)
       /\ IsClampedFloorOf(resp.body.result.shards_needed, reads + writes, 50000)
       /\ (reads = 2000000 /\ writes = 500000) =>
            /\ resp.body.result.read_replicas_needed = 200
            /\ resp.body.result.shards_needed = 50

\* C5 amended: as C5, except that storage_tb_needed is (reads+writes) * 0.001
\* rounded toward zero: the floor when reads+writes >= 0, the ceiling when it
\* is negative.
C5_DatabaseCapacityTrunc ==
  LET reads == InputOr("reads_per_second", 2000000)
      writes == InputOr("writes_per_second", 500000)
  IN CalculationFor({DATABASE}) =>
       /\ resp.status = 200
       /\ IsClampedFloorOf(resp.body.result.read_replicas_needed, reads, 10000)
       /\ IsClampedFloorOf(resp.body.result.write_masters_needed, writes, 5000)
       /\ IsTruncOf(resp.body.result.storage_tb_needed, reads + writes, 1000)
       /\ IsClampedFloorOf(resp.body.result.shards_needed, reads + writes, 50000)
       /\ (reads = 2000000 /\ writes = 500000) =>
            /\ resp.body.result.read_replicas_needed = 200
            /\ resp.body.result.shards_needed = 50

\* C5 witness: a negative total that is no multiple of 1000 is answered with
\* the value rounded toward zero.
C5_Witness ==
  /\ CalculationFor({DATABASE})
  /\ resp.request.inputs = [reads_per_second |-> -1500, writes_per_second |-> 0]
  /\ resp.status = 200
  /\ resp.body.result.storage_tb_needed = -1
  /\ resp.body.result.read_replicas_needed = 1

\* C6 as stated: for a load_balancer component and every integer
\* requests_per_second (default 2,000,000) load_balancers_needed =
\* max(1, floor(rps/100000)), bandwidth_gbps = floor(rps * 0.01),
\* ssl_termination_capacity = floor(rps * 0.8), health_checks_per_second =
\* floor(rps * 0.1); rps 2000000 gives 20 load balancers and 20000 Gbps.
C6_LoadBalancerCapacityFloor ==
  LET rps == InputOr("requests_per_second", 2000000)
  IN CalculationFor({LOAD_BALANCER}) =>
       /\ resp.status = 200
       /\ IsClampedFloorOf(resp.body.result.load_balancers_needed, rps, 100000)
       /\ IsFloorOf(resp.body.result.bandwidth_gbps, rps, 100)
       /\ IsFloorOf(resp.body.result.ssl_termination_capacity, rps * 8, 10)
       /\ IsFloorOf(resp.body.result.health_checks_per_second, rps, 10)
       /\ rps = 2000000 =>
            /\ resp.body.result.load_balancers_needed = 20
            /\ resp.body.result.bandwidth_gbps = 20000

\* C6 amended: as C6, except that bandwidth_gbps, ssl_termination_capacity
\* and health_checks_per_second are the products rounded toward zero: the
\* floor when rps >= 0, the ceiling when rps is negative.
C6_LoadBalancerCapacityTrunc ==
  LET rps == InputOr("requests_per_second", 2000000)
  IN CalculationFor({LOAD_BALANCER}) =>
       /\ resp.status = 200
       /\ IsClampedFloorOf(resp.body.result.load_balancers_needed, rps, 100000)
       /\ IsTruncOf(resp.body.result.bandwidth_gbps, rps, 100)
       /\ IsTruncOf(resp.body.result.ssl_termination_capacity, rps * 8, 10)
       /\ IsTruncOf(resp.body.result.health_checks_per_second, rps, 10)
       /\ rps = 2000000 =>
            /\ resp.body.result.load_balancers_needed = 20
            /\ resp.body.result.bandwidth_gbps = 20000

\* C6 witness: -50 requests per second are answered with bandwidth 0, the
\* value -0.5 rounded toward zero.
C6_Witness ==
  /\ CalculationFor({LOAD_BALANCER})
  /\ resp.request.inputs = [requests_per_second |-> -50]
  /\ resp.status = 200
  /\ resp.body.result.bandwidth_gbps = 0
  /\ resp.body.result.load_balancers_needed = 1

\* C7: for a stored component of any of the seven other types the calculator
\* answers 200 with the fixed "not implemented" result and explanation,
\* whatever the inputs.
C7_NotImplementedIsSuccess ==
  CalculationFor(ComponentType \ {GAME_SERVER, DATABASE, LOAD_BALANCER}) =>
    /\ resp.status = 200
    /\ resp.body.result =
         [message |-> "Capacity calculation not implemented for this component type"]
    /\ resp.body.explanation =
         "Capacity calculation not available for this component."
    /\ resp.body.inputs = resp.request.inputs

\* C7 witness: a cache component asked with game server inputs gets the
\* placeholder.
C7_Witness ==
  /\ CalculationFor({CACHE})
  /\ resp.request.inputs = [players_per_server |-> 0]
  /\ resp.status = 200
  /\ "message" \in DOMAIN resp.body.result

\* C8 as stated: the calculator fails only with 404, exactly when
\* component_id resolves to no stored component; for a stored component it
\* answers 200 for every inputs mapping, zero and negative values included.
C8_OnlyNotFoundFails ==
  resp.endpoint = "calculate_capacity" =>
    IF \E i \in DOMAIN components : components[i].id = resp.request.component_id
      THEN resp.status = 200
      ELSE resp.status = 404

\* C9: two calculator calls whose component ids resolve to components of the
\* same type and whose inputs are equal give the same result and explanation,
\* whatever their calculation_type and whatever ran in between.
C9_FunctionOfTypeAndInputs ==
  (/\ DOMAIN remembered # {}
   /\ CalculationFor({remembered.type})
   /\ resp.request.inputs = remembered.inputs) =>
    /\ resp.status = 200
    /\ resp.body.result = remembered.result
    /\ resp.body.explanation = remembered.explanation

\* C9 witness: a call labelled "peak" for the component a later startup run
\* stored is compared with a remembered call of the same type and inputs that
\* was made for another component id.
C9_Witness ==
  /\ DOMAIN remembered # {}
  /\ remembered.type = LOAD_BALANCER
  /\ remembered.inputs = [requests_per_second |-> -50]
  /\ CalculationFor({LOAD_BALANCER})
  /\ resp.request.inputs = remembered.inputs
  /\ resp.request.calculation_type = "peak"
  /\ resp.request.component_id = <<2, 1>>
  /\ resp.status = 200

\* C10: after a completed startup every component it inserted is returned by
\* Get component for its generated id with every field equal to the seed
\* value, and distinct seed components have distinct ids.
C10_SeedRoundTrip ==
  pc[Main] = "done" =>
    /\ Len(components) = Len(SeedComponents)
    /\ \A i, j \in DOMAIN components :
         i # j => components[i].id # components[j].id
    /\ \A i \in DOMAIN components :
         (/\ resp.endpoint = "get_component"
          /\ resp.request.component_id = components[i].id) =>
           /\ resp.status = 200
           /\ resp.body.id = components[i].id
           /\ SeedFieldsOf(resp.body) = SeedComponents[i]

\* C10 witness: the tenth seed component is fetched by its generated id
\* after a completed startup.
C10_Witness ==
  /\ pc[Main] = "done"
  /\ Len(components) = 10
  /\ resp.endpoint = "get_component"
  /\ resp.request.component_id = components[10].id
  /\ resp.status = 200
  /\ resp.body.name = "Data Storage & Analytics"

\* C11: in every store state (empty, partially seeded, fully seeded or
\* corrupted) the overview operation answers 200 with the same fixed metrics
\* object, total_concurrent_players = 26000000 and total_game_servers =
\* 50000 among them; nothing in it depends on the store.
C11_OverviewIsFixed ==
  resp.endpoint = "get_overview" =>
    /\ resp.status = 200
    /\ resp.body.total_concurrent_players = 26000000
    /\ resp.body.total_game_servers = 50000
    /\ resp.body = [total_concurrent_players |-> 26000000,
                    total_game_servers |-> 50000,
                    total_games |-> 1000000,
                    global_regions |-> 12,
                    edge_locations |-> 200,
                    requests_per_second |-> 10000000,
                    data_processed_per_day_tb |-> 1000,
                    uptime_percentage |-> Float(9999, 100)]

\* C11 witness: the overview answered while the components collection holds
\* only a strict prefix of this run's seed and the steps collection nothing
\* (the main instance is in the middle of its insert loop).
C11_Witness ==
  /\ resp.endpoint = "get_overview"
  /\ pc[Main] = "insert_components"
  /\ Len(components) = 4
  /\ components[4].id = uuid4(run[Main], 4)
  /\ steps = <<>>

\* C12: every request operation (List components, Get component, List
\* steps, Get step, calculate-capacity, overview), answered with success or
\* with NotFound and interleaved in any order with other requests and with
\* startup steps, leaves both collections unchanged; a step that changes a
\* collection is a step of a startup sequence.
C12_RequestsLeaveStore ==
  [][/\ resp'.endpoint # "none" =>
          /\ components' = components
          /\ steps' = steps
     /\ (components' # components \/ steps' # steps) =>
          \E p \in Instances :
            /\ pc[p] \in {"delete_components", "delete_steps",
                          "insert_components", "insert_steps"}
            /\ (pc'[p] # pc[p] \/ idx'[p] # idx[p])]_vars

\* C12 witness: calculate-capacity has signalled NotFound for an identifier
\* of an earlier run and the store still holds the whole seed of the run
\* after it.
C12_Witness ==
  /\ resp.endpoint = "calculate_capacity"
  /\ resp.status = 404
  /\ resp.request.component_id = uuid4(0, 4)
  /\ Len(components) = 10
  /\ Len(steps) = 8
  /\ components[1].id = uuid4(1, 1)

\* C13: when one startup sequence has run alone to completion, whatever the
\* collections held before it (nothing, an earlier seed, the remnant of a
\* failed or of two interleaved runs), the components collection holds
\* exactly the 10 seed components and the steps collection exactly the 8
\* seed steps, each once and each created by this run: no earlier document
\* survives.
C13_StartupAloneYieldsSeed ==
  pc[Main] = "done" =>
    /\ Len(components) = 10
    /\ \A i \in DOMAIN components :
         /\ SeedFieldsOf(components[i]) = SeedComponents[i]
         /\ components[i].id = uuid4(run[Main], i)
         /\ components[i].created_at = utcnow(run[Main])
    /\ Len(steps) = 8
    /\ \A i \in DOMAIN steps :
         /\ StepSeedFieldsOf(steps[i]) = SeedSteps[i]
         /\ steps[i].id = uuid4(run[Main], Len(SeedComponents) + i)

\* C13 witness: the second startup sequence of the behaviour has completed
\* over what the first one left, and no request has been answered since.
C13_Witness ==
  /\ pc[Main] = "done"
  /\ run[Main] = 2
  /\ resp = NoResponse
  /\ Len(components) = 10
  /\ Len(steps) = 8
  /\ steps[8].step_number = 8

\* The main instance has made both delete calls and no insert call yet.
DeletedNothingInserted == pc[Main] = "insert_components" /\ idx[Main] = 0

\* C14: startup deletes all documents of both collections before it inserts
\* any seed document. The insert loops are entered only through the point
\* after the second delete, so every startup that inserts anything passes
\* it; at that point both collections are empty, and a request answered
\* there sees the empty state: List components and List steps return the
\* empty sequence, Get component and Get step signal NotFound.
C14_TransientEmptyState ==
  /\ [](DeletedNothingInserted =>
          /\ components = <<>>
          /\ steps = <<>>
          /\ resp.endpoint \in {"get_components", "get_steps"} =>
               resp.status = 200 /\ resp.body = <<>>
          /\ resp.endpoint \in {"get_component", "get_step"} =>
               resp.status = 404)
  /\ [][/\ (pc'[Main] = "insert_components" /\ pc[Main] # "insert_components") =>
             (pc[Main] = "delete_steps" /\ DeletedNothingInserted')
        /\ (pc'[Main] = "insert_steps" /\ pc[Main] # "insert_steps") =>
             pc[Main] = "insert_components"
        /\ (pc'[Main] = "done" /\ pc[Main] # "done") =>
             pc[Main] = "insert_steps"
        /\ (Len(components') > Len(components) \/ Len(steps') > Len(steps)) =>
             pc[Main] \in {"insert_components", "insert_steps"}]_vars

\* C14 witness: while the main instance's second startup is between its
\* deletes and its first insert, the instance that is up lists the
\* components and gets the empty sequence.
C14_Witness ==
  /\ DeletedNothingInserted
  /\ run[Main] = 2
  /\ resp.endpoint = "get_components"
  /\ resp.request.difficulty = None
  /\ resp.status = 200
  /\ resp.body = <<>>

\* Identifiers the current startup sequence of the main instance issues.
IssuedByThisRun ==
  {uuid4(run[Main], k) : k \in 1..(Len(SeedComponents) + Len(SeedSteps))}

\* C15 as stated: after a failed startup the previous contents are gone and
\* the store holds a strict prefix of this run's 10 seed components and no
\* steps, or all 10 components and a strict prefix of this run's 8 steps.
C15_FailedStoreIsSeedPrefix ==
  pc[Main] = "failed" =>
    \/ /\ \E k \in 0..(Len(SeedComponents) - 1) :
            components = SeededComponents(run[Main], k)
       /\ steps = <<>>
    \/ /\ components = SeededComponents(run[Main], Len(SeedComponents))
       /\ \E k \in 0..(Len(SeedSteps) - 1) :
            steps = SeededSteps(run[Main], k)

\* C15 amended: a failing startup rolls nothing back; the store stays as
\* the calls completed before the failure made it. Before the first delete
\* completes the store is as the startup found it; after it the components
\* are gone and the steps are as found; in the component loop the store
\* holds exactly the seed components inserted so far and no steps; in the
\* step loop all 10 seed components and exactly the seed steps inserted so
\* far. So a failed startup leaves either no document of its own (it failed
\* at a delete or at its first insert) or a proper part of its seed, never
\* its complete seed.
C15_NothingRolledBack ==
  /\ [][/\ pc'[Main] = "failed" => UNCHANGED <<components, steps>>
        /\ pc'[Main] = "delete_components" => UNCHANGED <<components, steps>>
        /\ (pc[Main] = "delete_components" /\ pc'[Main] = "delete_steps") =>
             steps' = steps]_vars
  /\ [](pc[Main] = "delete_steps" => components = <<>>)
  /\ [](pc[Main] = "insert_components" =>
          /\ idx[Main] < Len(SeedComponents)
          /\ components = SeededComponents(run[Main], idx[Main])
          /\ steps = <<>>)
  /\ [](pc[Main] = "insert_steps" =>
          /\ idx[Main] < Len(SeedSteps)
          /\ components = SeededComponents(run[Main], Len(SeedComponents))
          /\ steps = SeededSteps(run[Main], idx[Main]))
  /\ [](pc[Main] = "failed" =>
          \/ /\ \A i \in DOMAIN components : components[i].id \notin IssuedByThisRun
             /\ \A i \in DOMAIN steps : steps[i].id \notin IssuedByThisRun
          \/ /\ \E k \in 1..(Len(SeedComponents) - 1) :
                  components = SeededComponents(run[Main], k)
             /\ steps = <<>>
          \/ /\ components = SeededComponents(run[Main], Len(SeedComponents))
             /\ \E k \in 0..(Len(SeedSteps) - 1) :
                  steps = SeededSteps(run[Main], k))

\* C15 witness: the first startup of the behaviour failed at its fourth
\* component insert; three components of this run are stored, no steps.
C15_Witness ==
  /\ pc[Main] = "failed"
  /\ run[Main] = 1
  /\ Len(components) = 3
  /\ components[3].id = uuid4(1, 3)
  /\ steps = <<>>

\* Both instances have run a startup sequence and both handlers have
\* returned.
BothCompleted == \A p \in Instances : pc[p] = "done" /\ run[p] > 0

\* Identifiers issued by the latest startup sequences of the instances.
IssuedByLatestRuns ==
  {uuid4(run[p], k) :
     p \in Instances, k \in 1..(Len(SeedComponents) + Len(SeedSteps))}

\* C16: when two startup sequences run concurrently against the same store
\* their delete and insert phases interleave, and after both have completed
\* the collections need not hold exactly the seed (the witness is such a
\* final state). What does hold after both have completed: every stored
\* document was inserted by one of the two sequences, and every seed
\* component and every seed step is stored once or twice, never left out.
C16_ConcurrentStartupsDuplicate ==
  BothCompleted =>
    /\ \A i \in DOMAIN components : components[i].id \in IssuedByLatestRuns
    /\ \A i \in DOMAIN steps : steps[i].id \in IssuedByLatestRuns
    /\ \A k \in DOMAIN SeedComponents :
         Cardinality({i \in DOMAIN components :
                        SeedFieldsOf(components[i]) = SeedComponents[k]})
           \in {1, 2}
    /\ \A k \in DOMAIN SeedSteps :
         Cardinality({i \in DOMAIN steps :
                        StepSeedFieldsOf(steps[i]) = SeedSteps[k]})
           \in {1, 2}

\* C16 witness: both startup sequences have completed and the store is
\* corrupted: the components collection does not hold exactly the 10 seed
\* components (a step_order value is stored twice) and the steps collection
\* holds more than 8 steps.
C16_Witness ==
  /\ BothCompleted
  /\ Len(components) # Len(SeedComponents)
  /\ \E i, j \in DOMAIN components :
       i # j /\ components[i].step_order = components[j].step_order
  /\ Len(steps) > Len(SeedSteps)

\* C17: for every integer input, zero and negative values included, the
\* instance counts of the database and load_balancer branches
\* (read_replicas_needed, write_masters_needed, shards_needed,
\* load_balancers_needed) are at least 1, whereas the unclamped outputs are
\* not kept positive: storage_tb_needed is zero or negative when reads +
\* writes is, bandwidth_gbps, ssl_termination_capacity and
\* health_checks_per_second are when requests_per_second is, and
\* servers_needed of the game_server branch is when concurrent_players is
\* (for a positive players_per_server).
C17_ClampedCountsOnly ==
  /\ (CalculationFor({DATABASE}) /\ resp.status = 200) =>
       /\ resp.body.result.read_replicas_needed >= 1
       /\ resp.body.result.write_masters_needed >= 1
       /\ resp.body.result.shards_needed >= 1
       /\ InputOr("reads_per_second", DefaultReadsPerSecond)
            + InputOr("writes_per_second", DefaultWritesPerSecond) <= 0 =>
              resp.body.result.storage_tb_needed <= 0
  /\ (CalculationFor({LOAD_BALANCER}) /\ resp.status = 200) =>
       /\ resp.body.result.load_balancers_needed >= 1
       /\ InputOr("requests_per_second", DefaultRequestsPerSecond) <= 0 =>
            /\ resp.body.result.bandwidth_gbps <= 0
            /\ resp.body.result.ssl_termination_capacity <= 0
            /\ resp.body.result.health_checks_per_second <= 0
  /\ (/\ CalculationFor({GAME_SERVER})
      /\ resp.status = 200
      /\ InputOr("concurrent_players", DefaultConcurrentPlayers) <= 0
      /\ InputOr("players_per_server", DefaultPlayersPerServer) > 0) =>
       resp.body.result.servers_needed <= 0

\* C17 witness: a database calculation with negative reads and writes has
\* answered: all three counts are 1 while storage_tb_needed is negative.
C17_Witness ==
  /\ CalculationFor({DATABASE})
  /\ resp.request.inputs = [reads_per_second |-> -1500, writes_per_second |-> -700]
  /\ resp.status = 200
  /\ resp.body.result.read_replicas_needed = 1
  /\ resp.body.result.write_masters_needed = 1
  /\ resp.body.result.shards_needed = 1
  /\ resp.body.result.storage_tb_needed = -2

\* Identifiers that startup sequences before the main instance's current
\* one gave to components (those of the stores found at the beginning
\* included).
StaleIds ==
  {uuid4(e, k) : e \in (-1)..(run[Main] - 1), k \in DOMAIN SeedComponents}

\* C18: component identifiers are regenerated on every startup. After a
\* startup has completed, an identifier that an earlier run gave to a
\* component belongs to no stored component, Get component and
\* calculate-capacity called with it signal NotFound, and the seed component
\* it named (same category and step_order) is stored again under another
\* identifier.
C18_IdsRegenerated ==
  pc[Main] = "done" =>
    /\ \A i \in DOMAIN components : components[i].id \notin StaleIds
    /\ (/\ resp.endpoint \in {"get_component", "calculate_capacity"}
        /\ resp.request.component_id \in StaleIds) =>
         /\ resp.status = 404
         /\ resp.body = [detail |-> "Component not found"]
    /\ \A e \in (-1)..(run[Main] - 1), k \in DOMAIN SeedComponents :
         \E i \in DOMAIN components :
           /\ components[i].type = SeedComponents[k].type
           /\ components[i].step_order = SeedComponents[k].step_order
           /\ components[i].id # uuid4(e, k)

\* C18 witness: after the main instance's startup has replaced the seed of
\* run 0, Get component with the identifier run 0 gave to the game server
\* signals NotFound, while the game server is stored under the identifier
\* of the new run.
C18_Witness ==
  /\ pc[Main] = "done"
  /\ run[Main] = 1
  /\ resp.endpoint = "get_component"
  /\ resp.request.component_id = uuid4(0, 4)
  /\ resp.status = 404
  /\ \E i \in DOMAIN components :
       /\ components[i].type = GAME_SERVER
       /\ components[i].step_order = 4
       /\ components[i].id = uuid4(1, 4)

====
